---- MODULE Spec2Model ----
(***************************************************************************)
(* Model of the dialog template of singleware/ui-dialog                    *)
(* (src/source/template.tsx): the render tree built at construction, the   *)
(* show/hide methods, the click handler bound to the wrapper, and the      *)
(* single confirmation slot behind wait/success/failure.                   *)
(*                                                                         *)
(* Every method body is an operator over a record s holding the fields the *)
(* method reads and writes (tree, confirmation, promises) plus out, the    *)
(* notifications dispatched so far by the running call.  An action runs    *)
(* one whole call and commits the record.                                  *)
(***************************************************************************)
EXTENDS Naturals, Sequences, FiniteSets

\* Bounds of the model.
MaxWaits == 2      \* wait() calls made in one behaviour
MaxEvents == 3     \* notifications kept in the observer's log (most recent)

VARIABLES
  properties,    \* this.properties: [modal, canIgnore], read-only configuration
  tree,          \* children lists of the shadow root, the wrapper and the dialog
  confirmation,  \* this.confirmation: 0 (undefined) or the promise whose resolve it holds
  promises,      \* state of every promise wait() created, in creation order
  events,        \* observer: the most recent notifications, oldest first
  emitted,       \* observer: the notifications dispatched by the most recent call
  lastCall,      \* observer: the most recent call and its argument
  cycle          \* observer: confirmation calls made since the most recent wait()

vars == <<properties, tree, confirmation, promises, events, emitted, lastCall, cycle>>

----------------------------------------------------------------------------
\* DOM nodes and helpers

ModalArgs == {"undefined", "false", "true"}

\* JavaScript truthiness of the optional boolean argument of show().
Truthy(modal) == modal = "true"

Parents == {"elements", "wrapper", "dialog"}

RECURSIVE Without(_, _)
Without(seq, node) ==
  IF seq = <<>> THEN <<>>
  ELSE IF Head(seq) = node THEN Without(Tail(seq), node)
       ELSE <<Head(seq)>> \o Without(Tail(seq), node)

RECURSIVE Before(_, _, _)
\* seq with node placed immediately before the first occurrence of ref.
Before(seq, node, ref) ==
  IF seq = <<>> THEN <<node>>
  ELSE IF Head(seq) = ref THEN <<node>> \o seq
       ELSE <<Head(seq)>> \o Before(Tail(seq), node, ref)

RECURSIVE Count(_, _)
Count(seq, node) ==
  IF seq = <<>> THEN 0
  ELSE (IF Head(seq) = node THEN 1 ELSE 0) + Count(Tail(seq), node)

\* Occurrences of a node in the whole render tree.
Occurrences(t, node) ==
  Count(t.elements, node) + Count(t.wrapper, node) + Count(t.dialog, node)

Attached(t, node) == Occurrences(t, node) > 0

\* node.remove(): the node leaves its parent; nothing happens if it has none.
remove(s, node) ==
  [s EXCEPT !.tree = [p \in Parents |-> Without(s.tree[p], node)]]

\* parent.insertBefore(node, ref) without the removal step (a copy remains
\* at the old position).
insertBeforeCloning(s, parent, node, ref) ==
  [s EXCEPT !.tree[parent] = Before(@, node, ref)]

\* parent.insertBefore(node, ref): the node is first removed from its
\* current parent, then placed before ref.
insertBefore(s, parent, node, ref) ==
  LET r == remove(s, node)
  IN  [r EXCEPT !.tree[parent] = Before(@, node, ref)]

\* parent.appendChild(node): the node is removed from its current parent,
\* then becomes the last child.
appendChild(s, parent, node) ==
  LET r == remove(s, node)
  IN  [r EXCEPT !.tree[parent] = Append(@, node)]

\* new Event(type, { bubbles: true, cancelable: false }); tree is what a
\* synchronous listener sees when the notification reaches it.
Event(type, t) ==
  [type |-> type, target |-> "skeleton", bubbles |-> TRUE,
   cancelable |-> FALSE, tree |-> t]

\* this.skeleton.dispatchEvent(...)
\* dispatchEvent called on the dialog node instead of the skeleton.
dispatchEventOnDialog(s, type) ==
  [s EXCEPT !.out = Append(@, [Event(type, s.tree) EXCEPT !.target = "dialog"])]

dispatchEvent(s, type) ==
  [s EXCEPT !.out = Append(@, Event(type, s.tree))]

\* The resolve function of promise i: settles it if it is still pending.
\* A resolve function that settles the promise again on every call.
resolveAgain(s, i, value) ==
  [s EXCEPT !.promises[i] = value]

resolve(s, i, value) ==
  IF s.promises[i] = "pending"
  THEN [s EXCEPT !.promises[i] = value]
  ELSE s

----------------------------------------------------------------------------
\* Method bodies

showArgumentOnly(s, modal) ==
  LET s1 == IF Truthy(modal)
            THEN insertBefore(s, "elements", "modalSlot", "wrapper")
            ELSE s
      s2 == appendChild(s1, "wrapper", "dialog")
  IN  dispatchEvent(s2, "show")

showDispatchFirst(s, modal) ==
  LET s0 == dispatchEvent(s, "show")
      s1 == IF Truthy(modal) \/ properties.modal
            THEN insertBefore(s0, "elements", "modalSlot", "wrapper")
            ELSE s0
  IN  appendChild(s1, "wrapper", "dialog")

showCloning(s, modal) ==
  LET s1 == IF Truthy(modal) \/ properties.modal
            THEN insertBeforeCloning(s, "elements", "modalSlot", "wrapper")
            ELSE s
      s2 == appendChild(s1, "wrapper", "dialog")
  IN  dispatchEvent(s2, "show")

showDroppingBackdrop(s, modal) ==
  LET s1 == IF Truthy(modal) \/ properties.modal
            THEN insertBefore(s, "elements", "modalSlot", "wrapper")
            ELSE remove(s, "modalSlot")
      s2 == appendChild(s1, "wrapper", "dialog")
  IN  dispatchEvent(s2, "show")

showUnlessWaiting(s, modal) ==
  IF s.confirmation # 0 /\ s.promises[s.confirmation] = "pending"
  THEN s
  ELSE LET s1 == IF Truthy(modal) \/ properties.modal
                 THEN insertBefore(s, "elements", "modalSlot", "wrapper")
                 ELSE s
           s2 == appendChild(s1, "wrapper", "dialog")
       IN  dispatchEvent(s2, "show")

showBackdropLast(s, modal) ==
  LET s1 == IF Truthy(modal) \/ properties.modal
            THEN appendChild(s, "elements", "modalSlot")
            ELSE s
      s2 == appendChild(s1, "wrapper", "dialog")
  IN  dispatchEvent(s2, "show")

show(s, modal) ==
  LET s1 == IF Truthy(modal) \/ properties.modal
            THEN insertBefore(s, "elements", "modalSlot", "wrapper")
            ELSE s
      s2 == appendChild(s1, "wrapper", "dialog")
  IN  dispatchEvent(s2, "show")

hideSettling(s) ==
  LET s1 == remove(s, "modalSlot")
      s2 == remove(s1, "dialog")
      s3 == IF s2.confirmation # 0 THEN resolve(s2, s2.confirmation, "false") ELSE s2
  IN  dispatchEvent(s3, "hide")

hideBackdropOnly(s) ==
  LET s1 == remove(s, "modalSlot")
  IN  dispatchEvent(s1, "hide")

hideBodyOnly(s) ==
  LET s1 == remove(s, "dialog")
  IN  dispatchEvent(s1, "hide")

hide(s) ==
  LET s1 == remove(s, "modalSlot")
      s2 == remove(s1, "dialog")
  IN  dispatchEvent(s2, "hide")

ignoreHandlerAnyTarget(s, target) ==
  IF properties.canIgnore THEN hide(s) ELSE s

ignoreHandler(s, target) ==
  IF properties.canIgnore /\ target = "dialog" THEN hide(s) ELSE s

successResolvingFalse(s) ==
  IF s.confirmation # 0
  THEN dispatchEvent(resolve(s, s.confirmation, "false"), "success")
  ELSE s

successUnguarded(s) ==
  dispatchEvent(IF s.confirmation # 0 THEN resolve(s, s.confirmation, "true") ELSE s,
                "success")

successHiding(s) ==
  IF s.confirmation # 0
  THEN dispatchEvent(remove(remove(resolve(s, s.confirmation, "true"), "modalSlot"), "dialog"),
                     "success")
  ELSE s

success(s) ==
  IF s.confirmation # 0
  THEN dispatchEvent(resolve(s, s.confirmation, "true"), "success")
  ELSE s

failure(s) ==
  IF s.confirmation # 0
  THEN dispatchEvent(resolve(s, s.confirmation, "false"), "failure")
  ELSE s

waitKeepingFirst(s) ==
  LET s1 == [s EXCEPT !.promises = Append(@, "pending")]
  IN  IF s.confirmation = 0
      THEN [s1 EXCEPT !.confirmation = Len(s1.promises)]
      ELSE s1

wait(s) ==
  LET s1 == [s EXCEPT !.promises = Append(@, "pending")]
  IN  [s1 EXCEPT !.confirmation = Len(s1.promises)]

----------------------------------------------------------------------------
\* State machine

\* The tree after the field initialisers of the class have run: the shadow
\* root holds the style node and the wrapper; the dialog holds its three
\* slots and is attached nowhere; the modal slot is attached nowhere.
InitTree ==
  [elements |-> <<"styles", "wrapper">>,
   wrapper  |-> <<>>,
   dialog   |-> <<"headerSlot", "contentSlot", "footerSlot">>]

Init ==
  /\ properties \in [modal : BOOLEAN, canIgnore : BOOLEAN]
  /\ tree = InitTree
  /\ confirmation = 0
  /\ promises = <<>>
  /\ events = <<>>
  /\ emitted = <<>>
  /\ lastCall = [op |-> "new", arg |-> "none"]
  /\ cycle = "none"

\* The fields a method works on, at the start of a call.
Cur ==
  [tree |-> tree, confirmation |-> confirmation, promises |-> promises, out |-> <<>>]

\* The most recent MaxEvents notifications.
Window(seq) ==
  IF Len(seq) <= MaxEvents THEN seq
  ELSE SubSeq(seq, Len(seq) - MaxEvents + 1, Len(seq))

NextCycle(op) ==
  CASE op = "wait" -> "open"
    [] op \in {"success", "failure"} ->
         (CASE cycle = "none" -> "none"
            [] cycle = "open" -> "once"
            [] OTHER -> "more")
    [] OTHER -> cycle

\* Commit the result s of the call c.
Call(c, s) ==
  \E r \in {s} :
    /\ tree' = r.tree
    /\ confirmation' = r.confirmation
    /\ promises' = r.promises
    /\ emitted' = r.out
    /\ events' = Window(events \o r.out)
    /\ lastCall' = c
    /\ cycle' = NextCycle(c.op)
    /\ UNCHANGED properties

\* Nodes a click that reaches the wrapper's listener can have as target:
\* the wrapper itself, and, while the dialog is attached, the dialog, its
\* slots and the content assigned to them.
Targets ==
  IF Attached(tree, "dialog")
  THEN {"wrapper", "dialog", "headerSlot", "contentSlot", "footerSlot", "child"}
  ELSE {"wrapper"}

CallShow == \E modal \in ModalArgs : Call([op |-> "show", arg |-> modal], show(Cur, modal))

CallHide == Call([op |-> "hide", arg |-> "none"], hide(Cur))

Click == \E target \in Targets : Call([op |-> "click", arg |-> target], ignoreHandler(Cur, target))

CallWait ==
  /\ Len(promises) < MaxWaits
  /\ Call([op |-> "wait", arg |-> "none"], wait(Cur))

CallSuccess == Call([op |-> "success", arg |-> "none"], success(Cur))

CallFailure == Call([op |-> "failure", arg |-> "none"], failure(Cur))

Next ==
  \/ CallShow
  \/ CallHide
  \/ Click
  \/ CallWait
  \/ CallSuccess
  \/ CallFailure

Spec == Init /\ [][Next]_vars

----------------------------------------------------------------------------
\* Vocabulary of the properties

BodyAttached(t) == Attached(t, "dialog")
BackdropAttached(t) == Attached(t, "modalSlot")
Hidden(t) == ~BodyAttached(t) /\ ~BackdropAttached(t)

\* The promise returned by the most recent wait().
Latest == Len(promises)

TypeOK ==
  /\ properties \in [modal : BOOLEAN, canIgnore : BOOLEAN]
  /\ confirmation \in 0..MaxWaits
  /\ Len(promises) <= MaxWaits
  /\ \A i \in DOMAIN promises : promises[i] \in {"pending", "true", "false"}
  /\ Len(events) <= MaxEvents
  /\ cycle \in {"none", "open", "once", "more"}

----------------------------------------------------------------------------
\* Properties

Confirmations == {"success", "failure"}

\* The value a confirmation call settles with.
Outcome(op) == IF op = "success" THEN "true" ELSE "false"

\* The i-th most recent notification of the log is of the given type.
Recent(i, type) == Len(events) >= i /\ events[Len(events) - i + 1].type = type

\* C1: the first success() after a wait() settles the promise that wait()
\* returned to true and dispatches exactly one 'success' notification; the
\* first failure() settles it to false and dispatches exactly one 'failure'
\* notification, whatever show, hide or click calls came in between.
C1_NextConfirmationSettles ==
  [][(cycle = "open" /\ lastCall'.op \in Confirmations) =>
       /\ promises[Latest] = "pending"
       /\ Len(promises') = Len(promises)
       /\ promises'[Latest] = Outcome(lastCall'.op)
       /\ emitted' = <<Event(lastCall'.op, tree')>>]_vars

\* C1 witness: success() was the first confirmation after the wait(), the
\* promise is settled to true, and a hide came right before it.
C1_Witness ==
  /\ lastCall.op = "success"
  /\ cycle = "once"
  /\ promises[Latest] = "true"
  /\ Recent(1, "success")
  /\ Recent(2, "hide")

\* C2: once a confirmation call has settled the promise of the most recent
\* wait(), every further success() or failure() before the next wait()
\* dispatches no notification.
C2_ResolvedOncePerCycle ==
  (lastCall.op \in Confirmations /\ cycle = "more") => emitted = <<>>

\* C3: a promise that is no longer the most recent one when it is pending
\* stays pending: after a second wait(), the next confirmation settles the
\* second promise only and nothing ever settles the first.
C3_OrphanStaysPending ==
  [][\A i \in DOMAIN promises :
       (i < Len(promises') /\ promises[i] = "pending") => promises'[i] = "pending"]_vars

\* C3 witness: two wait() calls with no confirmation in between, then a
\* success(): the second promise is settled, the first is still pending.
C3_Witness ==
  /\ Len(promises) >= 2
  /\ promises[1] = "pending"
  /\ promises[2] = "true"
  /\ lastCall.op = "success"

\* C4: hide(), called directly or by the click handler, leaves every promise
\* and the stored resolve function as they were; a promise changes state
\* only in a success() or failure() call.
C4_HideNeverSettles ==
  [][/\ lastCall'.op \in {"hide", "click"} =>
          (promises' = promises /\ confirmation' = confirmation)
     /\ \A i \in DOMAIN promises :
          promises'[i] # promises[i] => lastCall'.op \in Confirmations]_vars

\* C4 witness: the click handler has just hidden the dialog while the
\* promise of the most recent wait() is pending.
C4_Witness ==
  /\ lastCall.op = "click"
  /\ emitted # <<>>
  /\ confirmation # 0
  /\ promises[confirmation] = "pending"

\* C5 as stated: after show(false) the body is attached and the backdrop is
\* not in the tree; after show(true) both are attached, the backdrop
\* immediately before the wrapper.
C5_ShowFalseNeverBackdrop ==
  /\ (lastCall.op = "show" /\ lastCall.arg = "false") =>
        (BodyAttached(tree) /\ ~BackdropAttached(tree))
  /\ (lastCall.op = "show" /\ lastCall.arg = "true") =>
        (tree.elements = <<"styles", "modalSlot", "wrapper">> /\ tree.wrapper = <<"dialog">>)

\* C5 amended: show(false) attaches the body and leaves the backdrop in the
\* tree exactly when the configured modal property is true or the backdrop
\* was already attached before the call; show(true) attaches both, the
\* backdrop immediately before the wrapper.
C5_ShowFalseAddsNoBackdrop ==
  [][/\ (lastCall'.op = "show" /\ lastCall'.arg = "false") =>
          /\ BodyAttached(tree')
          /\ BackdropAttached(tree') <=> (properties.modal \/ BackdropAttached(tree))
     /\ (lastCall'.op = "show" /\ lastCall'.arg = "true") =>
          /\ tree'.elements = <<"styles", "modalSlot", "wrapper">>
          /\ tree'.wrapper = <<"dialog">>]_vars

\* C5 witness: show(false) on a widget whose modal property is false, called
\* right after a hide: the body is attached and the backdrop is not.
C5_Witness ==
  /\ lastCall.op = "show"
  /\ lastCall.arg = "false"
  /\ ~properties.modal
  /\ Recent(2, "hide")
  /\ BodyAttached(tree)
  /\ ~BackdropAttached(tree)

\* C6: from the hidden state, show(m) attaches the body and attaches the
\* backdrop if and only if m is true or the configured modal property is
\* true.
C6_EffectiveModality ==
  [][(Hidden(tree) /\ lastCall'.op = "show") =>
       /\ BodyAttached(tree')
       /\ BackdropAttached(tree') <=> (Truthy(lastCall'.arg) \/ properties.modal)]_vars

\* C6 witness: show() without argument right after a hide, on a widget
\* configured modal: the backdrop is attached.
C6_Witness ==
  /\ lastCall.op = "show"
  /\ lastCall.arg = "undefined"
  /\ properties.modal
  /\ Recent(2, "hide")
  /\ Recent(1, "show")
  /\ BackdropAttached(tree)
  /\ BodyAttached(tree)

\* C7: after hide() neither the body nor the backdrop is in the tree, a
\* hide() right after a hide() leaves the tree as it is, and every hide()
\* dispatches exactly one 'hide' notification.
C7_HideIdempotent ==
  [][lastCall'.op = "hide" =>
       /\ Hidden(tree')
       /\ emitted' = <<Event("hide", tree')>>
       /\ (lastCall.op = "hide" => tree' = tree)]_vars

\* C7 witness: two hide notifications in a row, the second from a hide() on
\* a dialog that was already hidden.
C7_Witness ==
  /\ lastCall.op = "hide"
  /\ Recent(1, "hide")
  /\ Recent(2, "hide")
  /\ Recent(3, "show")
  /\ Hidden(tree)

\* C8: every show() dispatches exactly one 'show' and every hide() exactly
\* one 'hide', appended to the log; the tree a listener sees when notified
\* is the tree the call leaves: body attached (backdrop too under effective
\* modality) for 'show', both detached for 'hide'.
C8_NotifyAfterMutation ==
  [][lastCall'.op \in {"show", "hide"} =>
       /\ emitted' = <<Event(lastCall'.op, tree')>>
       /\ events' = Window(Append(events, Event(lastCall'.op, tree')))
       /\ lastCall'.op = "show" =>
            /\ BodyAttached(tree')
            /\ (Truthy(lastCall'.arg) \/ properties.modal) => BackdropAttached(tree')
       /\ lastCall'.op = "hide" => Hidden(tree')]_vars

\* C8 witness: the log ends with show, hide, show, and the last show saw
\* body and backdrop attached.
C8_Witness ==
  /\ lastCall.op = "show"
  /\ Recent(3, "show")
  /\ Recent(2, "hide")
  /\ Recent(1, "show")
  /\ Hidden(events[Len(events) - 1].tree)
  /\ BackdropAttached(events[Len(events)].tree)
  /\ BodyAttached(events[Len(events)].tree)

\* C9: a click hides the dialog if and only if canIgnore is true and the
\* target is the dialog node; any other click changes nothing and
\* dispatches nothing.
C9_ClickDismissal ==
  [][lastCall'.op = "click" =>
       IF properties.canIgnore /\ lastCall'.arg = "dialog"
       THEN /\ Hidden(tree')
            /\ emitted' = <<Event("hide", tree')>>
            /\ events' = Window(Append(events, Event("hide", tree')))
       ELSE /\ emitted' = <<>>
            /\ UNCHANGED <<tree, confirmation, promises, events, properties, cycle>>]_vars

\* C9 witness: a click on the dialog node with canIgnore true has hidden a
\* dialog that was shown.
C9_Witness ==
  /\ lastCall = [op |-> "click", arg |-> "dialog"]
  /\ properties.canIgnore
  /\ Recent(2, "show")
  /\ Recent(1, "hide")
  /\ Hidden(tree)

\* C10: the tree never holds more than one backdrop node or more than one
\* body node, and show(m) on a visible dialog whose backdrop is attached
\* exactly when m or the modal property is true leaves the tree as it is
\* and still dispatches 'show'.
C10_ShowMovesNeverDuplicates ==
  [][/\ Occurrences(tree', "modalSlot") <= 1
     /\ Occurrences(tree', "dialog") <= 1
     /\ (/\ lastCall'.op = "show"
         /\ BodyAttached(tree)
         /\ BackdropAttached(tree) <=> (Truthy(lastCall'.arg) \/ properties.modal)) =>
          (tree' = tree /\ emitted' = <<Event("show", tree)>>)]_vars

\* C10 witness: show(true) on a dialog already shown modal: two show
\* notifications in a row and one backdrop in the tree.
C10_Witness ==
  /\ lastCall = [op |-> "show", arg |-> "true"]
  /\ Recent(2, "show")
  /\ Recent(1, "show")
  /\ BackdropAttached(events[Len(events) - 1].tree)
  /\ Occurrences(tree, "modalSlot") = 1
  /\ Occurrences(tree, "dialog") = 1

\* C11: while no wait() has ever been called, success() and failure()
\* dispatch nothing and leave the tree, the promises and the confirmation
\* slot as they were.
C11_NoWaitNoOp ==
  [][(cycle = "none" /\ lastCall'.op \in Confirmations) =>
       /\ confirmation = 0
       /\ emitted' = <<>>
       /\ UNCHANGED <<tree, confirmation, promises, events, properties>>]_vars

\* C11 witness: failure() has been called on a shown dialog that never saw
\* a wait(), and it dispatched nothing.
C11_Witness ==
  /\ lastCall.op = "failure"
  /\ cycle = "none"
  /\ promises = <<>>
  /\ BodyAttached(tree)
  /\ Recent(1, "show")
  /\ emitted = <<>>

\* C12: wait(), success() and failure() leave the render tree as it is, so
\* the dialog is hidden, visible or visible modal after the call exactly as
\* it was before.
C12_ConfirmationKeepsTree ==
  [][lastCall'.op \in (Confirmations \cup {"wait"}) => tree' = tree]_vars

\* C12 witness: success() has settled a wait() on a dialog shown modal, and
\* the dialog is still shown modal.
C12_Witness ==
  /\ lastCall.op = "success"
  /\ cycle = "once"
  /\ emitted # <<>>
  /\ BodyAttached(tree)
  /\ BackdropAttached(tree)

\* The render tree with the body and the backdrop attached or not, each at
\* the place show() puts it.
ShapeTree(body, backdrop) ==
  [elements |-> IF backdrop THEN <<"styles", "modalSlot", "wrapper">>
                ELSE <<"styles", "wrapper">>,
   wrapper  |-> IF body THEN <<"dialog">> ELSE <<>>,
   dialog   |-> <<"headerSlot", "contentSlot", "footerSlot">>]

\* A wait() is outstanding: the stored resolve belongs to a pending promise.
Waiting == confirmation # 0 /\ promises[confirmation] = "pending"

\* C13: show, hide and click can be called in every state, and the tree
\* they leave and the notifications they dispatch depend on the tree, the
\* configuration and the argument only, never on the confirmation slot: the
\* result is the same with or without a pending wait().
C13_ResponsiveWhileWaiting ==
  /\ [](ENABLED CallShow /\ ENABLED CallHide /\ ENABLED Click)
  /\ [][/\ lastCall'.op = "show" =>
             /\ tree' = ShapeTree(TRUE, BackdropAttached(tree)
                                         \/ Truthy(lastCall'.arg) \/ properties.modal)
             /\ emitted' = <<Event("show", tree')>>
        /\ lastCall'.op = "hide" =>
             /\ tree' = ShapeTree(FALSE, FALSE)
             /\ emitted' = <<Event("hide", tree')>>
        /\ lastCall'.op = "click" =>
             IF properties.canIgnore /\ lastCall'.arg = "dialog"
             THEN tree' = ShapeTree(FALSE, FALSE) /\ emitted' = <<Event("hide", tree')>>
             ELSE tree' = tree /\ emitted' = <<>>
        /\ lastCall'.op \in {"show", "hide", "click"} =>
             (promises' = promises /\ confirmation' = confirmation)]_vars

\* C13 witness: show(true) has attached body and backdrop and dispatched
\* 'show' while the promise of a wait() is pending.
C13_Witness ==
  /\ Waiting
  /\ lastCall = [op |-> "show", arg |-> "true"]
  /\ emitted = <<Event("show", ShapeTree(TRUE, TRUE))>>
  /\ tree = ShapeTree(TRUE, TRUE)

\* C14: the wrapper is always a child of the shadow root, after the style
\* node; the backdrop, when attached, is the child of the shadow root right
\* before the wrapper; the body, when attached, is the only child of the
\* wrapper; the dialog keeps its three slots.  show and hide change nothing
\* but the membership of backdrop and body.
C14_TreeShape ==
  /\ Occurrences(tree, "wrapper") = 1
  /\ tree = ShapeTree(BodyAttached(tree), BackdropAttached(tree))

\* C14 witness: a show has attached the backdrop right before the wrapper
\* and the body inside the wrapper.
C14_Witness ==
  /\ lastCall.op = "show"
  /\ tree.elements = <<"styles", "modalSlot", "wrapper">>
  /\ tree.wrapper = <<"dialog">>

\* C15 as stated: every 'success' and 'failure' notification is dispatched
\* on the dialog body node.
C15_ConfirmationOnDialog ==
  \A i \in DOMAIN emitted :
    emitted[i].type \in Confirmations => emitted[i].target = "dialog"

\* C15 amended: every 'success' and 'failure' notification is dispatched on
\* the skeleton, the root element of the widget, not on the dialog body
\* node; it bubbles and cannot be cancelled.
C15_ConfirmationOnSkeleton ==
  \A i \in DOMAIN emitted :
    emitted[i].type \in Confirmations =>
      /\ emitted[i].target = "skeleton"
      /\ emitted[i].bubbles
      /\ ~emitted[i].cancelable

\* C15 witness: success() has settled a wait() and dispatched its
\* notification.
C15_Witness ==
  /\ lastCall.op = "success"
  /\ cycle = "once"
  /\ Len(emitted) = 1
  /\ emitted[1].type = "success"
  /\ emitted[1].target = "skeleton"

\* C16: whenever the backdrop is attached the body is attached too: the
\* dialog is hidden, visible non-modal or visible modal, never backdrop
\* without body.
C16_BackdropImpliesBody ==
  BackdropAttached(tree) => BodyAttached(tree)

\* C16 witness: a dialog shown modal has just been hidden, and neither node
\* is left in the tree.
C16_Witness ==
  /\ lastCall.op = "hide"
  /\ Recent(2, "show")
  /\ BackdropAttached(events[Len(events) - 1].tree)
  /\ Recent(1, "hide")
  /\ Hidden(tree)

\* C17: a settled promise keeps its value: no call changes a promise that
\* is already true or false.
C17_SettledIsFinal ==
  [][\A i \in DOMAIN promises :
       promises[i] # "pending" => promises'[i] = promises[i]]_vars

\* C17 witness: wait(); success(); failure(): the failure() found the slot
\* still set, and the promise is still settled to true.
C17_Witness ==
  /\ lastCall.op = "failure"
  /\ cycle = "more"
  /\ Recent(2, "success")
  /\ Recent(1, "failure")
  /\ promises[Latest] = "true"

====
